---- MODULE Spec2Model ----
(***************************************************************************)
(* A model of riff.c: main, parse_RIFF, parse_subchunk_INFO and the       *)
(* helpers read_bytes, remaining_read, is_ascii, print_raw, AudioFormat.  *)
(* The mapped file is a sequence of bytes (0..255); a pointer into it is  *)
(* the 0-based offset from the start of the mapping.  Multi-byte fields   *)
(* are memcpy'd into host integers; the host is little-endian.            *)
(***************************************************************************)
EXTENDS Integers, Sequences, FiniteSets, TLC

\* ---------------------------------------------------------------- bounds
MaxChunks == 2
MaxFields == 2
MaxPad == 2
MaxTail == 7

\* ------------------------------------------------------- program constants
NULL == -1
EXIT_SUCCESS == 0
EXIT_FAILURE == 1

RIFF == <<82, 73, 70, 70>>
FMT  == <<102, 109, 116, 32>>
LIST == <<76, 73, 83, 84>>
INFO == <<73, 78, 70, 79>>

VARIABLES
  raw,       \* the bytes of the file named by args[1]
  argc,      \* main's argc
  env,       \* which of open/fstat/mmap fails, if any
  pc,        \* position in the program
  it,        \* parse_RIFF: cursor
  end,       \* parse_RIFF: raw + length
  buf,       \* parse_RIFF: char buf[4]
  subchunk,  \* parse_RIFF: int subchunk
  size,      \* parse_RIFF: uint32_t size of the walker loop
  iit,       \* parse_subchunk_INFO: it
  iend,      \* parse_subchunk_INFO: end
  ibuf,      \* parse_subchunk_INFO: char buf[4]
  isize,     \* parse_subchunk_INFO: uint32_t size
  extra,     \* parse_subchunk_INFO: int extra
  ires,      \* value returned by parse_subchunk_INFO
  res,       \* main's res
  exit,      \* exit status of the process
  out,       \* what was written to stdout, one entry per printf
  err,       \* what was written to stderr, one entry per fprintf
  reads,     \* offsets of the mapping dereferenced so far
  asserts,   \* every assert() evaluated so far held
  ret,       \* source line of the return taken in parse_RIFF, 0 if none
  iret,      \* source line of the return taken in parse_subchunk_INFO
  next,      \* <<how it relates to raw, the file the program is run on next>>
  prev,      \* <<relation, exit status, stdout, stderr>> of the previous run
  tmp        \* AudioFormat: static char tmp[64], as a C string

vars == <<raw, argc, env, pc, it, end, buf, subchunk, size, iit, iend, ibuf,
          isize, extra, ires, res, exit, out, err, reads, asserts, ret, iret,
          next, prev, tmp>>

infoVars == <<iit, iend, ibuf, isize, extra, ires, iret>>
runVars == <<next, prev, tmp>>

\* --------------------------------------------------------------- helpers
length == Len(raw)

\* *(raw + i); the tail of the last mapped page reads as zero
At(i) == IF i >= 0 /\ i < Len(raw) THEN raw[i + 1] ELSE 0

\* the n bytes memcpy copies from raw + p
Mem(p, n) == [i \in 1..n |-> At(p + i - 1)]

\* the offsets of those bytes
Span(p, n) == {p + i - 1 : i \in 1..n}

\* the bytes taken in network order, as with ntohl()
LE32_swapped(b) == b[4] + 256 * b[3] + 65536 * b[2] + 16777216 * b[1]

\* memcpy into a uint32_t / uint16_t on a little-endian host
LE32(b) == b[1] + 256 * b[2] + 65536 * b[3] + 16777216 * b[4]
LE16(b) == b[1] + 256 * b[2]

remaining_read(f, s) == s - f

\* a bounds check that lets a read run one byte past the end
read_bytes_short(p, e, bytes) ==
  IF remaining_read(p, e) + 1 < bytes THEN NULL ELSE p + bytes

\* a bounds check that refuses to read the last bytes of the view
read_bytes_strict(p, e, bytes) ==
  IF remaining_read(p, e) <= bytes THEN NULL ELSE p + bytes

read_bytes(p, e, bytes) ==
  IF remaining_read(p, e) < bytes THEN NULL ELSE p + bytes

\* a size check made against the bytes left before the 8-byte chunk header
Exceeds_loose(sz, f, s) == sz > remaining_read(f, s) + 8

\* a declared size that claims more than the bytes left before s
Exceeds(sz, f, s) == sz > remaining_read(f, s)

\* isprint() of every char: a byte of 0x20..0x7E
is_printable(b) == \A i \in 1..Len(b) : b[i] >= 32 /\ b[i] <= 126

\* isascii() of every char: a byte of 0..127
is_ascii(b) == \A i \in 1..Len(b) : b[i] <= 127

\* printf("%.*s", 4, b): the chars of b up to the first NUL
RECURSIVE PrintS(_)
PrintS(b) ==
  IF b = <<>> \/ Head(b) = 0 THEN <<>> ELSE <<Head(b)>> \o PrintS(Tail(b))

\* print_raw: the characters written for one char
RawChar(c) ==
  IF c = 0 THEN <<92, 48>>
  ELSE IF c = 10 THEN <<92, 110>>
  ELSE IF c >= 32 /\ c <= 126 THEN <<c>>
  ELSE <<92, 63, 63>>

RECURSIVE print_raw(_)
print_raw(b) ==
  IF b = <<>> THEN <<>> ELSE RawChar(Head(b)) \o print_raw(Tail(b))

\* AudioFormat: the codec name of the switch; any other code is printed
\* into the static tmp with "%d"
AudioFormat(format) ==
  CASE format = 0 -> "Unknown"
    [] format = 1 -> "PCM"
    [] format = 2 -> "Microsoft ADPCM"
    [] format = 3 -> "Microsoft IEEE float"
    [] format = 4 -> "Compaq VSELP"
    [] format = 5 -> "IBM CVSD"
    [] format = 6 -> "ITU G.711 a-law"
    [] format = 7 -> "ITU G.711 u-law"
    [] format = 8 -> "Microsoft DTS"
    [] format = 9 -> "DRM"
    [] format = 10 -> "WMA 9 Speech"
    [] format = 11 -> "Microsoft Windows Media RT Voice"
    [] format = 16 -> "OKI-ADPCM"
    [] format = 17 -> "Intel IMA/DVI-ADPCM"
    [] format = 18 -> "Videologic Mediaspace ADPCM"
    [] format = 19 -> "Sierra ADPCM"
    [] format = 20 -> "Antex G.723 ADPCM"
    [] format = 21 -> "DSP Solutions DIGISTD"
    [] format = 22 -> "DSP Solutions DIGIFIX"
    [] format = 23 -> "Dialogic OKI ADPCM"
    [] format = 24 -> "Media Vision ADPCM"
    [] format = 25 -> "HP CU"
    [] format = 26 -> "HP Dynamic Voice"
    [] format = 32 -> "Yamaha ADPCM"
    [] format = 33 -> "SONARC Speech Compression"
    [] format = 34 -> "DSP Group True Speech"
    [] format = 35 -> "Echo Speech Corp."
    [] format = 36 -> "Virtual Music Audiofile AF36"
    [] format = 37 -> "Audio Processing Tech."
    [] format = 38 -> "Virtual Music Audiofile AF10"
    [] format = 39 -> "Aculab Prosody 1612"
    [] format = 40 -> "Merging Tech. LRC"
    [] format = 48 -> "Dolby AC2"
    [] format = 49 -> "Microsoft GSM610"
    [] format = 50 -> "MSN Audio"
    [] format = 51 -> "Antex ADPCM"
    [] format = 52 -> "Control Resources VQLPC"
    [] format = 53 -> "DSP Solutions DIGIREAL"
    [] format = 54 -> "DSP Solutions DIGIADPCM"
    [] format = 55 -> "Control Resources CR10"
    [] format = 56 -> "Natural MicroSystems VBX ADPCM"
    [] format = 57 -> "Crystal Semiconductors IMA ADPCM"
    [] format = 58 -> "Echo Speech ECHOSC3"
    [] format = 59 -> "Rockwell ADPCM"
    [] format = 60 -> "Rockwell DIGITALK"
    [] format = 61 -> "Xebec Multimedia"
    [] format = 64 -> "Antex G.721 ADPCM"
    [] format = 65 -> "Antex G.728 CELP"
    [] format = 66 -> "Microsoft MSG723"
    [] format = 67 -> "IBM AVC ADPCM"
    [] format = 69 -> "ITU-T G.726"
    [] format = 80 -> "Microsoft MPEG"
    [] format = 81 -> "RT23 or PAC"
    [] format = 82 -> "InSoft RT24"
    [] format = 83 -> "InSoft PAC"
    [] format = 85 -> "MP3"
    [] format = 89 -> "Cirrus"
    [] format = 96 -> "Cirrus Logic"
    [] format = 97 -> "ESS Tech. PCM"
    [] format = 98 -> "Voxware Inc."
    [] format = 99 -> "Canopus ATRAC"
    [] format = 100 -> "APICOM G.726 ADPCM"
    [] format = 101 -> "APICOM G.722 ADPCM"
    [] format = 102 -> "Microsoft DSAT"
    [] format = 103 -> "Microsoft DSAT-DISPLAY"
    [] format = 105 -> "Voxware Byte Aligned"
    [] format = 112 -> "Voxware ACB"
    [] format = 113 -> "Voxware AC10"
    [] format = 114 -> "Voxware AC16"
    [] format = 115 -> "Voxware AC20"
    [] format = 116 -> "Voxware MetaVoice"
    [] format = 117 -> "Voxware MetaSound"
    [] format = 118 -> "Voxware RT29HW"
    [] format = 119 -> "Voxware VR12"
    [] format = 120 -> "Voxware VR18"
    [] format = 121 -> "Voxware TQ40"
    [] format = 122 -> "Voxware SC3"
    [] format = 123 -> "Voxware SC3"
    [] format = 128 -> "Soundsoft"
    [] format = 129 -> "Voxware TQ60"
    [] format = 130 -> "Microsoft MSRT24"
    [] format = 131 -> "AT&T G.729A"
    [] format = 132 -> "Motion Pixels MVI-MV12"
    [] format = 133 -> "DataFusion G.726"
    [] format = 134 -> "DataFusion GSM610"
    [] format = 136 -> "Iterated Systems Audio"
    [] format = 137 -> "Onlive"
    [] format = 138 -> "Multitude, Inc. FT SX20"
    [] format = 139 -> "Infocom IT'S A/S G.721 ADPCM"
    [] format = 140 -> "Convedia G729"
    [] format = 141 -> "Congruency, Inc. (not specified)"
    [] format = 145 -> "Siemens SBC24"
    [] format = 146 -> "Sonic Foundry Dolby AC3 APDIF"
    [] format = 147 -> "MediaSonic G.723"
    [] format = 148 -> "Aculab Prosody 8kbps"
    [] format = 151 -> "ZyXEL ADPCM"
    [] format = 152 -> "Philips LPCBB"
    [] format = 153 -> "Studer Professional Audio Packed"
    [] format = 160 -> "Maiden PhonyTalk"
    [] format = 161 -> "Racal Recorder GSM"
    [] format = 162 -> "Racal Recorder G720.a"
    [] format = 163 -> "Racal G723.1"
    [] format = 164 -> "Racal Tetra ACELP"
    [] format = 176 -> "NEC AAC NEC Corporation"
    [] format = 255 -> "AAC"
    [] format = 256 -> "Rhetorex ADPCM"
    [] format = 257 -> "IBM u-Law"
    [] format = 258 -> "IBM a-Law"
    [] format = 259 -> "IBM ADPCM"
    [] format = 273 -> "Vivo G.723"
    [] format = 274 -> "Vivo Siren"
    [] format = 288 -> "Philips Speech Processing CELP"
    [] format = 289 -> "Philips Speech Processing GRUNDIG"
    [] format = 291 -> "Digital G.723"
    [] format = 293 -> "Sanyo LD ADPCM"
    [] format = 304 -> "Sipro Lab ACEPLNET"
    [] format = 305 -> "Sipro Lab ACELP4800"
    [] format = 306 -> "Sipro Lab ACELP8V3"
    [] format = 307 -> "Sipro Lab G.729"
    [] format = 308 -> "Sipro Lab G.729A"
    [] format = 309 -> "Sipro Lab Kelvin"
    [] format = 310 -> "VoiceAge AMR"
    [] format = 320 -> "Dictaphone G.726 ADPCM"
    [] format = 336 -> "Qualcomm PureVoice"
    [] format = 337 -> "Qualcomm HalfRate"
    [] format = 341 -> "Ring Zero Systems TUBGSM"
    [] format = 352 -> "Microsoft Audio1"
    [] format = 353 -> "Windows Media Audio Professional V9"
    [] format = 354 -> "Windows Media Audio Professional V9"
    [] format = 355 -> "Windows Media Audio Lossless V9"
    [] format = 356 -> "WMA Pro over S/PDIF"
    [] format = 368 -> "UNISYS NAP ADPCM"
    [] format = 369 -> "UNISYS NAP ULAW"
    [] format = 370 -> "UNISYS NAP ALAW"
    [] format = 371 -> "UNISYS NAP 16K"
    [] format = 372 -> "MM SYCOM ACM SYC008 SyCom Technologies"
    [] format = 373 -> "MM SYCOM ACM SYC701 G726L SyCom Technologies"
    [] format = 374 -> "MM SYCOM ACM SYC701 CELP54 SyCom Technologies"
    [] format = 375 -> "MM SYCOM ACM SYC701 CELP68 SyCom Technologies"
    [] format = 376 -> "Knowledge Adventure ADPCM"
    [] format = 384 -> "Fraunhofer IIS MPEG2AAC"
    [] format = 400 -> "Digital Theater Systems DTS DS"
    [] format = 512 -> "Creative Labs ADPCM"
    [] format = 514 -> "Creative Labs FASTSPEECH8"
    [] format = 515 -> "Creative Labs FASTSPEECH10"
    [] format = 528 -> "UHER ADPCM"
    [] format = 533 -> "Ulead DV ACM"
    [] format = 534 -> "Ulead DV ACM"
    [] format = 544 -> "Quarterdeck Corp."
    [] format = 560 -> "I-Link VC"
    [] format = 576 -> "Aureal Semiconductor Raw Sport"
    [] format = 577 -> "ESST AC3"
    [] format = 592 -> "Interactive Products HSX"
    [] format = 593 -> "Interactive Products RPELP"
    [] format = 608 -> "Consistent CS2"
    [] format = 624 -> "Sony SCX"
    [] format = 625 -> "Sony SCY"
    [] format = 626 -> "Sony ATRAC3"
    [] format = 627 -> "Sony SPC"
    [] format = 640 -> "TELUM Telum Inc."
    [] format = 641 -> "TELUMIA Telum Inc."
    [] format = 645 -> "Norcom Voice Systems ADPCM"
    [] format = 768 -> "Fujitsu FM TOWNS SND"
    [] format = 769 -> "Fujitsu (not specified)"
    [] format = 770 -> "Fujitsu (not specified)"
    [] format = 771 -> "Fujitsu (not specified)"
    [] format = 772 -> "Fujitsu (not specified)"
    [] format = 773 -> "Fujitsu (not specified)"
    [] format = 774 -> "Fujitsu (not specified)"
    [] format = 775 -> "Fujitsu (not specified)"
    [] format = 776 -> "Fujitsu (not specified)"
    [] format = 848 -> "Micronas Semiconductors, Inc. Development"
    [] format = 849 -> "Micronas Semiconductors, Inc. CELP833"
    [] format = 1024 -> "Brooktree Digital"
    [] format = 1025 -> "Intel Music Coder (IMC)"
    [] format = 1026 -> "Ligos Indeo Audio"
    [] format = 1104 -> "QDesign Music"
    [] format = 1280 -> "On2 VP7 On2 Technologies"
    [] format = 1281 -> "On2 VP6 On2 Technologies"
    [] format = 1664 -> "AT&T VME VMPCM"
    [] format = 1665 -> "AT&T TCP"
    [] format = 1792 -> "YMPEG Alpha (dummy for MPEG-2 compressor)"
    [] format = 2222 -> "ClearJump LiteWave (lossless)"
    [] format = 4096 -> "Olivetti GSM"
    [] format = 4097 -> "Olivetti ADPCM"
    [] format = 4098 -> "Olivetti CELP"
    [] format = 4099 -> "Olivetti SBC"
    [] format = 4100 -> "Olivetti OPR"
    [] format = 4352 -> "Lernout & Hauspie"
    [] format = 4353 -> "Lernout & Hauspie CELP codec"
    [] format = 4354 -> "Lernout & Hauspie SBC codec"
    [] format = 4355 -> "Lernout & Hauspie SBC codec"
    [] format = 4356 -> "Lernout & Hauspie SBC codec"
    [] format = 5120 -> "Norris Comm. Inc."
    [] format = 5121 -> "ISIAudio"
    [] format = 5376 -> "AT&T Soundspace Music Compression"
    [] format = 6172 -> "VoxWare RT24 speech codec"
    [] format = 6174 -> "Lucent elemedia AX24000P Music codec"
    [] format = 6513 -> "Sonic Foundry LOSSLESS"
    [] format = 6521 -> "Innings Telecom Inc. ADPCM"
    [] format = 7175 -> "Lucent SX8300P speech codec"
    [] format = 7180 -> "Lucent SX5363S G.723 compliant codec"
    [] format = 7939 -> "CUseeMe DigiTalk (ex-Rocwell)"
    [] format = 8132 -> "NCT Soft ALF2CD ACM"
    [] format = 8192 -> "FAST Multimedia DVM"
    [] format = 8193 -> "Dolby DTS (Digital Theater System)"
    [] format = 8194 -> "RealAudio 1 / 2 14.4"
    [] format = 8195 -> "RealAudio 1 / 2 28.8"
    [] format = 8196 -> "RealAudio G2 / 8 Cook (low bitrate)"
    [] format = 8197 -> "RealAudio 3 / 4 / 5 Music (DNET)"
    [] format = 8198 -> "RealAudio 10 AAC (RAAC)"
    [] format = 8199 -> "RealAudio 10 AAC+ (RACP)"
    [] format = 9472 -> "Reserved range to 0x2600 Microsoft"
    [] format = 13075 -> "makeAVIS (ffvfw fake AVI sound from AviSynth scripts)"
    [] format = 16707 -> "Divio MPEG-4 AAC audio"
    [] format = 16897 -> "Nokia adaptive multirate"
    [] format = 16963 -> "Divio G726 Divio, Inc."
    [] format = 17228 -> "LEAD Speech"
    [] format = 22092 -> "LEAD Vorbis"
    [] format = 22358 -> "WavPack Audio"
    [] format = 26447 -> "Ogg Vorbis (mode 1)"
    [] format = 26448 -> "Ogg Vorbis (mode 2)"
    [] format = 26449 -> "Ogg Vorbis (mode 3)"
    [] format = 26479 -> "Ogg Vorbis (mode 1+)"
    [] format = 26480 -> "Ogg Vorbis (mode 2+)"
    [] format = 26481 -> "Ogg Vorbis (mode 3+)"
    [] format = 28672 -> "3COM NBX 3Com Corporation"
    [] format = 28781 -> "FAAD AAC"
    [] format = 31265 -> "GSM-AMR (CBR, no SID)"
    [] format = 31266 -> "GSM-AMR (VBR, including SID)"
    [] format = 41216 -> "Comverse Infosys Ltd. G723 1"
    [] format = 41217 -> "Comverse Infosys Ltd. AVQSBC"
    [] format = 41218 -> "Comverse Infosys Ltd. OLDSBC"
    [] format = 41219 -> "Symbol Technologies G729A"
    [] format = 41220 -> "VoiceAge AMR WB VoiceAge Corporation"
    [] format = 41221 -> "Ingenient Technologies Inc. G726"
    [] format = 41222 -> "ISO/MPEG-4 advanced audio Coding"
    [] format = 41223 -> "Encore Software Ltd G726"
    [] format = 41225 -> "Speex ACM Codec xiph.org"
    [] format = 57260 -> "DebugMode SonicFoundry Vegas FrameServer ACM Codec"
    [] format = 59144 -> "Unknown"
    [] format = 61868 -> "Free Lossless Audio Codec FLAC"
    [] format = 65534 -> "Extensible"
    [] format = 65535 -> "Development"
    [] OTHER -> ToString(format)

\* strcat instead of sprintf: what an earlier call left in tmp stays
sprintf_tmp_append(t, format) == t \o ToString(format)

\* sprintf(tmp, "%d", format): tmp is overwritten from its first byte
sprintf_tmp(t, format) == ToString(format)

\* ------------------------------------------------------------ the inputs
U32(v) == <<v % 256, (v \div 256) % 256, (v \div 65536) % 256,
            (v \div 16777216) % 256>>
U16(v) == <<v % 256, (v \div 256) % 256>>

RECURSIVE Flatten(_)
Flatten(ss) == IF ss = <<>> THEN <<>> ELSE Head(ss) \o Flatten(Tail(ss))

SeqsUpTo(S, n) == UNION {[1..k -> S] : k \in 0..n}

Rep(b, n) == [i \in 1..n |-> b]

Prefixes(s) == {SubSeq(s, 1, k) : k \in 0..Len(s)}

RIFX == <<82, 73, 70, 88>>
WAVE == <<87, 65, 86, 69>>
DATA == <<100, 97, 116, 97>>
FACT == <<102, 97, 99, 116>>
ADTL == <<97, 100, 116, 108>>
IART == <<73, 65, 82, 84>>
INAM == <<73, 78, 65, 77>>
ICMT == <<73, 67, 77, 84>>
ISFT == <<73, 83, 70, 84>>

\* the six fmt fields, in file order
FmtRecs == { <<1, 1, 8000, 16000, 2, 16>>,
             <<65534, 2, 44100, 16909060, 4, 24>>,
             <<4660, 6, 96000, 70000, 258, 8>> }
StdRec == <<1, 1, 8000, 16000, 2, 16>>

Header(magic, csize, format, fmtid, fsize, rec) ==
  magic \o U32(csize) \o format \o fmtid \o U32(fsize) \o U16(rec[1]) \o
  U16(rec[2]) \o U32(rec[3]) \o U32(rec[4]) \o U16(rec[5]) \o U16(rec[6])

\* a well-formed header in front of a body: ChunkSize is the file size - 8
StdFile(body) == Header(RIFF, 28 + Len(body), WAVE, FMT, 16, StdRec) \o body

Chunk(id, sz, payload) == id \o U32(sz) \o payload

\* top-level subchunks other than INFO lists, well-formed and not
SimpleLib ==
  { Chunk(DATA, 0, <<>>),
    Chunk(DATA, 4, <<97, 98, 99, 100>>),
    Chunk(FACT, 3, <<97, 98, 99>>),
    Chunk(FACT, 3, <<97, 98, 99, 0>>),
    Chunk(DATA, 2, <<0, 1>>),
    Chunk(DATA, 2, <<200, 65>>),
    Chunk(<<0, 65, 66, 67>>, 0, <<>>),
    Chunk(<<65, 7, 66, 67>>, 1, <<10>>),
    Chunk(<<65, 66, 67, 128>>, 0, <<>>),
    Chunk(DATA, 5, <<97, 98>>),
    Chunk(LIST, 4, INFO),
    Chunk(LIST, 15, INFO \o ISFT \o U32(3) \o <<120, 10, 200>>),
    Chunk(LIST, 3, <<73, 78, 70>>),
    Chunk(LIST, 12, ADTL \o IART \o U32(1000000)),
    Chunk(LIST, 4, INFO \o <<0>>) }

\* INFO fields
Field(tag, sz, text, pad) == tag \o U32(sz) \o text \o Rep(0, pad)

\* well-formed fields: odd, even and empty text, each with 0..MaxPad NULs
GoodFields ==
  { Field(f[1], Len(f[2]), f[2], p) :
      f \in { <<IART, <<65, 108, 105>>>>,
              <<INAM, <<66, 111>>>>,
              <<ICMT, <<>>>> },
      p \in 0..MaxPad }

\* a field whose size overflows the list, a cut tag, a cut size
BadFields ==
  { Field(ISFT, 9, <<120>>, 0),
    <<73, 65>>,
    IART \o <<1, 0>> }

\* the payload of a LIST chunk of type INFO, of up to n well-formed fields
InfoPayloads(n) == { INFO \o Flatten(fs) : fs \in SeqsUpTo(GoodFields, n) }

DataChunk == Chunk(DATA, 4, <<97, 98, 99, 100>>)

\* LIST chunks: well-formed and alone, followed by a sibling or by a stray
\* NUL; ending in a malformed field; declared one byte short of the payload
InfoBodies ==
  { Chunk(LIST, Len(p), p) \o f :
      p \in InfoPayloads(MaxFields), f \in {<<>>, DataChunk, <<0>>} } \cup
  { Chunk(LIST, Len(p \o b), p \o b) \o f :
      p \in InfoPayloads(MaxFields - 1), b \in BadFields,
      f \in {<<>>, DataChunk} } \cup
  { Chunk(LIST, Len(p) - 1, p) \o f :
      p \in InfoPayloads(MaxFields - 1), f \in {<<>>, DataChunk} }

Bodies ==
  { Flatten(cs) : cs \in SeqsUpTo(SimpleLib, MaxChunks) } \cup InfoBodies

Tails == { Rep(b, n) : b \in {0, 65, 200}, n \in 1..MaxTail }

SmallBodies == { <<>>, Chunk(DATA, 0, <<>>) }

Headers ==
  { Header(magic, cs, format, fmtid, fs, rec) \o body :
      magic \in {RIFF, RIFX},
      cs \in {0, 27, 28, 29, 36, 1000000},
      format \in {WAVE, <<87, 65, 0, 69>>},
      fmtid \in {FMT, DATA},
      fs \in {16, 18, 1000000},
      rec \in FmtRecs,
      body \in SmallBodies }

Files ==
  { StdFile(b) : b \in Bodies } \cup
  { StdFile(b \o t) : b \in SmallBodies, t \in Tails } \cup
  Prefixes(StdFile(DataChunk)) \cup
  Headers

SmallFiles ==
  { StdFile(b) : b \in SmallBodies } \cup
  { <<>>, Header(RIFX, 28, WAVE, FMT, 16, StdRec),
    StdFile(Chunk(DATA, 5, <<97, 98>>)) }

Envs == {"ok", "open", "fstat", "mmap"}

NoFile == <<"none">>

\* an INFO list with an odd-length text followed by one NUL, and its twin
\* without the NUL
OddFields == { <<IART, <<65, 108, 105>>>>, <<ISFT, <<120, 10, 200>>>>,
               <<ICMT, <<0>>>> }

PadTwin(before, f, after, follower, pad) ==
  LET p == INFO \o before \o Field(f[1], Len(f[2]), f[2], pad) \o after
  IN  StdFile(Chunk(LIST, Len(p), p) \o follower)

Neighbours == { <<>>, Field(INAM, 2, <<66, 111>>, 0),
                Field(INAM, 2, <<66, 111>>, MaxPad) }

PadTwins ==
  { <<PadTwin(b, f, a \o x, w, 1), PadTwin(b, f, a \o x, w, 0)>> :
      b \in Neighbours,
      f \in OddFields,
      a \in Neighbours,
      x \in {<<>>, Field(ISFT, 9, <<120>>, 0)},
      w \in {<<>>, DataChunk} }

\* buffers parsed twice in a row
SameFiles ==
  { Header(RIFF, 28 + Len(b), WAVE, FMT, 16, rec) \o b :
      rec \in FmtRecs, b \in SmallBodies } \cup
  { Header(RIFX, 28, WAVE, FMT, 16, StdRec),
    StdFile(DataChunk),
    StdFile(Chunk(DATA, 5, <<97, 98>>)),
    StdFile(Chunk(DATA, 2, <<200, 65>>)),
    PadTwin(<<>>, <<IART, <<65, 108, 105>>>>, <<>>, DataChunk, 1),
    PadTwin(<<>>, <<ISFT, <<120, 10, 200>>>>, IART \o U32(9), <<>>, 0) }

Inputs ==
  (Files \X {2} \X {"ok"} \X {NoFile}) \cup
  (SmallFiles \X (1..3) \X Envs \X {NoFile}) \cup
  { <<t[1], 2, "ok", <<"pad", t[2]>>>> : t \in PadTwins } \cup
  { <<f, 2, "ok", <<"same", f>>>> : f \in SameFiles }

\* ------------------------------------------------------------------ main
\* the program is at p; a failed assert() has aborted the process
Running(p) == asserts /\ pc = p

Init ==
  /\ \E in \in Inputs :
       raw = in[1] /\ argc = in[2] /\ env = in[3] /\ next = in[4]
  /\ prev = <<>>
  /\ tmp = ""
  /\ pc = "main"
  /\ it = NULL /\ end = NULL /\ buf = <<>> /\ subchunk = 0 /\ size = 0
  /\ iit = NULL /\ iend = NULL /\ ibuf = <<>> /\ isize = 0 /\ extra = 0
  /\ ires = NULL
  /\ res = EXIT_FAILURE
  /\ exit = NULL
  /\ out = <<>> /\ err = <<>>
  /\ reads = {}
  /\ asserts = TRUE
  /\ ret = 0 /\ iret = 0

\* main up to the call of parse_RIFF.  args[argc] is a null pointer, and
\* open() of a null path fails; mmap() of an empty file fails
Main ==
  /\ Running("main")
  /\ LET usage == IF argc # 2 THEN <<<<"%s file\n">>>> ELSE <<>> IN
     IF argc < 2 \/ env = "open"
       THEN /\ err' = err \o usage \o <<<<"open(%s): %s\n">>>>
            /\ exit' = res
            /\ pc' = "exit"
            /\ UNCHANGED <<it, end, subchunk>>
     ELSE IF env = "fstat"
       THEN /\ err' = err \o usage \o <<<<"fstat(%s): %s\n">>>>
            /\ exit' = res
            /\ pc' = "exit"
            /\ UNCHANGED <<it, end, subchunk>>
     ELSE IF env = "mmap" \/ length = 0
       THEN /\ err' = err \o usage \o <<<<"mmap(): %s\n">>>>
            /\ exit' = res
            /\ pc' = "exit"
            /\ UNCHANGED <<it, end, subchunk>>
     ELSE /\ err' = err \o usage
          /\ it' = 0
          /\ end' = length
          /\ subchunk' = 0
          /\ pc' = "riff_id"
          /\ UNCHANGED exit
  /\ UNCHANGED <<raw, argc, env, buf, size, res, out, reads, asserts, ret>>
  /\ UNCHANGED infoVars
  /\ UNCHANGED runVars

\* res = parse_RIFF(...) has returned: munmap, close, return res
MainReturn ==
  /\ Running("main_ret")
  /\ exit' = res
  /\ pc' = "exit"
  /\ UNCHANGED <<raw, argc, env, it, end, buf, subchunk, size, res, out, err,
                 reads, asserts, ret>>
  /\ UNCHANGED infoVars
  /\ UNCHANGED runVars

\* ------------------------------------------------------------ parse_RIFF
\* return v; at source line ln of parse_RIFF
Return(v, ln) ==
  /\ res' = v
  /\ ret' = ln
  /\ pc' = "main_ret"

\* the part every header step leaves alone
HdrFrame ==
  /\ UNCHANGED <<raw, argc, env, exit, end, subchunk, size, err>>
  /\ UNCHANGED infoVars
  /\ UNCHANGED runVars

\* one checked read of n bytes at the cursor of parse_RIFF, then the
\* printf of what was read; underrun returns at line ln
HdrRead(n, ln, event, to) ==
  LET nx == read_bytes(it, end, n) IN
  /\ asserts' = (asserts /\ it <= end)
  /\ it' = nx
  /\ IF nx = NULL
       THEN /\ Return(EXIT_FAILURE, ln)
            /\ UNCHANGED <<reads, out>>
       ELSE /\ reads' = reads \cup Span(it, n)
            /\ out' = Append(out, event)
            /\ pc' = to
            /\ UNCHANGED <<res, ret>>
  /\ HdrFrame

\* a validator that takes the big-endian variant for a RIFF file
IsRiff_x(b) == b \in {RIFF, RIFX}

\* memcmp(buf, "RIFF", sizeof(buf)) == 0
IsRiff(b) == b = RIFF

RiffId ==
  /\ Running("riff_id")
  /\ LET nx == read_bytes(it, end, 4) IN
     /\ asserts' = (asserts /\ it <= end)
     /\ it' = nx
     /\ IF nx = NULL
          THEN /\ Return(EXIT_FAILURE, 151)
               /\ UNCHANGED <<buf, reads, out>>
          ELSE /\ buf' = Mem(it, 4)
               /\ reads' = reads \cup Span(it, 4)
               /\ IF ~IsRiff(buf')
                    THEN /\ Return(EXIT_FAILURE, 156)
                         /\ UNCHANGED out
                    ELSE /\ out' = Append(out, <<"%.*s[", PrintS(buf')>>)
                         /\ pc' = "riff_size"
                         /\ UNCHANGED <<res, ret>>
  /\ HdrFrame

RiffSize ==
  /\ Running("riff_size")
  /\ LET nx == read_bytes(it, end, 4)
         chunk_size == LE32(Mem(it, 4))
     IN
     /\ asserts' = (asserts /\ it <= end /\ (nx # NULL => nx <= end))
     /\ it' = nx
     /\ IF nx = NULL
          THEN /\ Return(EXIT_FAILURE, 161)
               /\ UNCHANGED <<reads, out, err>>
          ELSE /\ reads' = reads \cup Span(it, 4)
               /\ out' = Append(out, <<"ChunkSize: %u, ", chunk_size>>)
               /\ IF Exceeds(chunk_size, nx, end)
                    THEN /\ err' = Append(err,
                                 <<"ERROR: RIFF header ChunkSize[%u] is larger then the remaining file size[%zu]\n",
                                   chunk_size, remaining_read(nx, end)>>)
                         /\ Return(EXIT_FAILURE, 170)
                    ELSE /\ pc' = "riff_format"
                         /\ UNCHANGED <<res, ret, err>>
  /\ UNCHANGED <<raw, argc, env, exit, end, subchunk, size, buf>>
  /\ UNCHANGED infoVars
  /\ UNCHANGED runVars

RiffFormat ==
  /\ Running("riff_format")
  /\ buf' = IF read_bytes(it, end, 4) = NULL THEN buf ELSE Mem(it, 4)
  /\ HdrRead(4, 174, <<"Format: '%.*s']\n", PrintS(Mem(it, 4))>>, "fmt_id")

FmtId ==
  /\ Running("fmt_id")
  /\ LET nx == read_bytes(it, end, 4) IN
     /\ asserts' = (asserts /\ it <= end)
     /\ it' = nx
     /\ IF nx = NULL
          THEN /\ Return(EXIT_FAILURE, 184)
               /\ UNCHANGED <<buf, reads, out, subchunk>>
          ELSE /\ buf' = Mem(it, 4)
               /\ reads' = reads \cup Span(it, 4)
               /\ IF buf' # FMT
                    THEN /\ Return(EXIT_FAILURE, 187)
                         /\ UNCHANGED <<out, subchunk>>
                    ELSE /\ subchunk' = subchunk + 1
                         /\ out' = Append(out, <<"[SubChunk%dId: '%.*s', ",
                                                 subchunk', PrintS(buf')>>)
                         /\ pc' = "fmt_size"
                         /\ UNCHANGED <<res, ret>>
  /\ UNCHANGED <<raw, argc, env, exit, end, size, err>>
  /\ UNCHANGED infoVars
  /\ UNCHANGED runVars

\* a validator that requires the declared size of the fmt chunk to be 16
FmtSize_strict ==
  /\ Running("fmt_size")
  /\ LET nx == read_bytes(it, end, 4) IN
     /\ asserts' = (asserts /\ it <= end)
     /\ it' = nx
     /\ IF nx = NULL \/ LE32(Mem(it, 4)) # 16
          THEN /\ Return(EXIT_FAILURE, 192)
               /\ UNCHANGED <<reads, out>>
          ELSE /\ reads' = reads \cup Span(it, 4)
               /\ out' = Append(out, <<"size: %u, ", LE32(Mem(it, 4))>>)
               /\ pc' = "fmt_audio"
               /\ UNCHANGED <<res, ret>>
  /\ HdrFrame
  /\ UNCHANGED buf

\* the declared size of the fmt chunk: read, printed, not used
FmtSize ==
  /\ Running("fmt_size")
  /\ HdrRead(4, 192, <<"size: %u, ", LE32(Mem(it, 4))>>, "fmt_audio")
  /\ UNCHANGED buf

\* AudioFormat() returns a string literal for the codes of its table and
\* tmp, just written, for every other code
FmtAudioFormat ==
  /\ Running("fmt_audio")
  /\ LET nx == read_bytes(it, end, 2)
         format == LE16(Mem(it, 2))
         unknown == AudioFormat(format) = ToString(format)
     IN
     /\ asserts' = (asserts /\ it <= end)
     /\ it' = nx
     /\ IF nx = NULL
          THEN /\ Return(EXIT_FAILURE, 198)
               /\ UNCHANGED <<reads, out, tmp>>
          ELSE /\ reads' = reads \cup Span(it, 2)
               /\ tmp' = IF unknown THEN sprintf_tmp(tmp, format) ELSE tmp
               /\ out' = Append(out, <<"AudioFormat: '%s', ",
                                       IF unknown THEN tmp'
                                                  ELSE AudioFormat(format)>>)
               /\ pc' = "fmt_channels"
               /\ UNCHANGED <<res, ret>>
  /\ UNCHANGED <<raw, argc, env, exit, end, buf, subchunk, size, err>>
  /\ UNCHANGED infoVars
  /\ UNCHANGED <<next, prev>>

FmtNumChannels ==
  /\ Running("fmt_channels")
  /\ HdrRead(2, 204, <<"NumChannels: %u, ", LE16(Mem(it, 2))>>, "fmt_rate")
  /\ UNCHANGED buf

FmtSampleRate ==
  /\ Running("fmt_rate")
  /\ HdrRead(4, 210, <<"SampleRate: %u, ", LE32(Mem(it, 4))>>, "fmt_byterate")
  /\ UNCHANGED buf

FmtByteRate ==
  /\ Running("fmt_byterate")
  /\ HdrRead(4, 216, <<"ByteRate: %u, ", LE32(Mem(it, 4))>>, "fmt_align")
  /\ UNCHANGED buf

FmtBlockAlign ==
  /\ Running("fmt_align")
  /\ HdrRead(2, 222, <<"BlockAlign: %u, ", LE16(Mem(it, 2))>>, "fmt_bits")
  /\ UNCHANGED buf

FmtBitsPerSample ==
  /\ Running("fmt_bits")
  /\ HdrRead(2, 228, <<"BitsPerSample: %u]\n", LE16(Mem(it, 2))>>, "walk")
  /\ UNCHANGED buf

\* a loop that stops at the end the RIFF header declares, 8 + ChunkSize
MoreChunks_declared(p, e) ==
  remaining_read(p, e) > 0 /\ p < 8 + LE32(Mem(4, 4))

\* a loop that runs only while a whole chunk header is left
MoreChunks_header(p, e) == remaining_read(p, e) >= 8

\* the condition of the subchunk loop of parse_RIFF
MoreChunks(p, e) == remaining_read(p, e) > 0

\* the subchunk loop: one evaluation of its condition, and return EXIT_SUCCESS
Walk ==
  /\ Running("walk")
  /\ asserts' = (asserts /\ it <= end)
  /\ IF MoreChunks(it, end)
       THEN /\ pc' = "walk_id"
            /\ UNCHANGED <<res, ret>>
       ELSE Return(EXIT_SUCCESS, 271)
  /\ UNCHANGED <<raw, argc, env, exit, it, end, buf, subchunk, size, out, err,
                 reads>>
  /\ UNCHANGED infoVars
  /\ UNCHANGED runVars

WalkId ==
  /\ Running("walk_id")
  /\ LET nx == read_bytes(it, end, 4) IN
     /\ asserts' = (asserts /\ it <= end)
     /\ it' = nx
     /\ IF nx = NULL
          THEN /\ Return(EXIT_FAILURE, 237)
               /\ UNCHANGED <<buf, reads, out>>
          ELSE /\ buf' = Mem(it, 4)
               /\ reads' = reads \cup Span(it, 4)
               /\ IF ~is_ascii(buf')
                    THEN /\ out' = Append(out, <<"'%.*s'\n", PrintS(buf')>>)
                         /\ Return(EXIT_FAILURE, 241)
                    ELSE /\ pc' = "walk_size"
                         /\ UNCHANGED <<out, res, ret>>
  /\ UNCHANGED <<raw, argc, env, exit, end, subchunk, size, err>>
  /\ UNCHANGED infoVars
  /\ UNCHANGED runVars

WalkSize ==
  /\ Running("walk_size")
  /\ LET nx == read_bytes(it, end, 4) IN
     /\ asserts' = (asserts /\ it <= end /\ (nx # NULL => nx <= end))
     /\ it' = nx
     /\ IF nx = NULL
          THEN /\ Return(EXIT_FAILURE, 244)
               /\ UNCHANGED <<size, reads, out, err, subchunk>>
          ELSE /\ size' = LE32(Mem(it, 4))
               /\ reads' = reads \cup Span(it, 4)
               /\ IF Exceeds(size', nx, end)
                    THEN /\ err' = Append(err,
                                 <<"ERROR: SubChunk%dId size[%u] extends above the remaining size of file[%zu]\n",
                                   subchunk, size', remaining_read(nx, end)>>)
                         /\ Return(EXIT_FAILURE, 252)
                         /\ UNCHANGED <<out, subchunk>>
                    ELSE /\ subchunk' = subchunk + 1
                         /\ out' = out \o
                              << <<"[SubChunk%dId: '%.*s', ", subchunk',
                                   PrintS(buf)>>,
                                 <<"size: %u, ", size'>> >>
                         /\ pc' = "walk_dispatch"
                         /\ UNCHANGED <<err, res, ret>>
  /\ UNCHANGED <<raw, argc, env, exit, end, buf>>
  /\ UNCHANGED infoVars
  /\ UNCHANGED runVars

\* an end pointer taken from the walker instead of from the LIST chunk
SubView_toEnd(p, sz) == end

\* const u8 *const end = raw + length, of parse_subchunk_INFO(it, size)
SubView(p, sz) == p + sz

\* the three branches on the chunk ID; LIST calls parse_subchunk_INFO(it, size)
WalkDispatch ==
  /\ Running("walk_dispatch")
  /\ IF buf = LIST
       THEN /\ iit' = it
            /\ iend' = SubView(it, size)
            /\ pc' = "info_type"
            /\ UNCHANGED <<out, reads>>
       ELSE /\ reads' = reads \cup Span(it, size)
            /\ out' = IF is_ascii(Mem(it, size))
                        THEN Append(out, <<"print_raw", print_raw(Mem(it, size))>>)
                        ELSE Append(out, <<"...">>)
            /\ pc' = "walk_next"
            /\ UNCHANGED <<iit, iend>>
  /\ UNCHANGED <<raw, argc, env, exit, it, end, buf, subchunk, size, err, res,
                 ret, asserts, ibuf, isize, extra, ires, iret>>
  /\ UNCHANGED runVars

\* a walker that skips a LIST chunk whose parse failed, and goes on
WalkInfoReturn_skip ==
  /\ Running("walk_info_ret")
  /\ pc' = "walk_next"
  /\ UNCHANGED <<raw, argc, env, exit, it, end, buf, subchunk, size, out, err,
                 reads, asserts, res, ret>>
  /\ UNCHANGED infoVars
  /\ UNCHANGED runVars

\* parse_subchunk_INFO has returned to the walker
WalkInfoReturn ==
  /\ Running("walk_info_ret")
  /\ IF ires # EXIT_SUCCESS
       THEN Return(ires, 260)
       ELSE /\ pc' = "walk_next"
            /\ UNCHANGED <<res, ret>>
  /\ UNCHANGED <<raw, argc, env, exit, it, end, buf, subchunk, size, out, err,
                 reads, asserts>>
  /\ UNCHANGED infoVars
  /\ UNCHANGED runVars

\* a walker that takes the declared size to count the 8-byte chunk header
Advance_rewind(p, sz) == p + sz - 8

\* a walker that steps over a pad byte after a chunk of odd size
Advance_padded(p, sz) == p + sz + (sz % 2)

\* it += size
Advance(p, sz) == p + sz

\* the end of one iteration of the subchunk loop
WalkNext ==
  /\ Running("walk_next")
  /\ out' = Append(out, <<"]\n">>)
  /\ it' = Advance(it, size)
  /\ pc' = "walk"
  /\ UNCHANGED <<raw, argc, env, exit, end, buf, subchunk, size, err, res, ret,
                 reads, asserts>>
  /\ UNCHANGED infoVars
  /\ UNCHANGED runVars

\* --------------------------------------------------- parse_subchunk_INFO
\* return v; at source line ln of parse_subchunk_INFO
InfoReturn(v, ln) ==
  /\ ires' = v
  /\ iret' = ln
  /\ pc' = "walk_info_ret"

\* what parse_subchunk_INFO cannot touch
InfoFrame ==
  UNCHANGED <<raw, argc, env, exit, it, end, buf, subchunk, size, res, ret,
              next, prev, tmp>>

\* every list type scanned for fields
IsInfoList_any(b) == TRUE

\* memcmp(buf, "INFO", sizeof(buf)) == 0
IsInfoList(b) == b = INFO

\* the list type, and the return of a list that is not of type INFO
InfoType ==
  /\ Running("info_type")
  /\ LET nx == read_bytes(iit, iend, 4) IN
     /\ asserts' = (asserts /\ iit <= iend)
     /\ iit' = nx
     /\ IF nx = NULL
          THEN /\ InfoReturn(EXIT_FAILURE, 94)
               /\ UNCHANGED <<ibuf, reads, out>>
          ELSE /\ ibuf' = Mem(iit, 4)
               /\ reads' = reads \cup Span(iit, 4)
               /\ IF IsInfoList(ibuf')
                    THEN /\ out' = Append(out, <<"%.*s[\n", PrintS(ibuf')>>)
                         /\ pc' = "info_loop"
                         /\ UNCHANGED <<ires, iret>>
                    ELSE /\ out' = Append(out, <<"...">>)
                         /\ InfoReturn(EXIT_SUCCESS, 137)
  /\ UNCHANGED <<iend, isize, extra, err>>
  /\ InfoFrame

\* the field loop: its condition, and the code after the loop
InfoLoop ==
  /\ Running("info_loop")
  /\ asserts' = (asserts /\ iit <= iend)
  /\ IF remaining_read(iit, iend) > 0
       THEN /\ extra' = 0
            /\ pc' = "info_tag"
            /\ UNCHANGED <<out, ires, iret>>
       ELSE /\ out' = Append(out, <<"]">>)
            /\ InfoReturn(EXIT_SUCCESS, 137)
            /\ UNCHANGED extra
  /\ UNCHANGED <<iit, iend, ibuf, isize, err, reads>>
  /\ InfoFrame

InfoTag ==
  /\ Running("info_tag")
  /\ LET nx == read_bytes(iit, iend, 4) IN
     /\ asserts' = (asserts /\ iit <= iend)
     /\ iit' = nx
     /\ IF nx = NULL
          THEN /\ InfoReturn(EXIT_FAILURE, 103)
               /\ UNCHANGED <<ibuf, reads, out>>
          ELSE /\ ibuf' = Mem(iit, 4)
               /\ reads' = reads \cup Span(iit, 4)
               /\ out' = Append(out, <<"\t%.*s[", PrintS(ibuf')>>)
               /\ pc' = "info_size"
               /\ UNCHANGED <<ires, iret>>
  /\ UNCHANGED <<iend, isize, extra, err>>
  /\ InfoFrame

InfoSize ==
  /\ Running("info_size")
  /\ LET nx == read_bytes(iit, iend, 4) IN
     /\ asserts' = (asserts /\ iit <= iend /\ (nx # NULL => nx <= iend))
     /\ iit' = nx
     /\ IF nx = NULL
          THEN /\ InfoReturn(EXIT_FAILURE, 107)
               /\ UNCHANGED <<isize, reads, out, err>>
          ELSE /\ isize' = LE32(Mem(iit, 4))
               /\ reads' = reads \cup Span(iit, 4)
               /\ out' = Append(out, <<"size: %u, '", isize'>>)
               /\ IF Exceeds(isize', nx, iend)
                    THEN /\ err' = Append(err,
                                 <<"ERROR: INFO subcunk size[%u] exceeds size[%zu]\n",
                                   isize', remaining_read(nx, iend)>>)
                         /\ InfoReturn(EXIT_FAILURE, 113)
                    ELSE /\ pc' = "info_text"
                         /\ UNCHANGED <<err, ires, iret>>
  /\ UNCHANGED <<iend, ibuf, extra>>
  /\ InfoFrame

InfoText ==
  /\ Running("info_text")
  /\ reads' = reads \cup Span(iit, isize)
  /\ out' = out \o << <<"print_raw", print_raw(Mem(iit, isize))>>, <<"']">> >>
  /\ iit' = iit + isize
  /\ pc' = "info_pad"
  /\ UNCHANGED <<iend, ibuf, isize, extra, ires, iret, err, asserts>>
  /\ InfoFrame

\* a NUL loop that skips one alignment byte at most
IsPad_once(p, e) == remaining_read(p, e) > 0 /\ At(p) = 0 /\ extra = 0

\* a NUL loop that looks at the next byte without asking whether one is left
IsPad_unbounded(p, e) == At(p) = 0

\* no padding skipped
IsPad_never(p, e) == FALSE

\* the condition of the NUL loop
IsPad(p, e) == remaining_read(p, e) > 0 /\ At(p) = 0

\* one evaluation of the condition of the NUL loop, and what follows it
InfoPad ==
  /\ Running("info_pad")
  /\ asserts' = (asserts /\ iit <= iend)
  /\ reads' = IF remaining_read(iit, iend) > 0 THEN reads \cup {iit} ELSE reads
  /\ IF IsPad(iit, iend)
       THEN /\ out' = out \o (IF extra = 0 THEN <<<<"Extra[">>>> ELSE <<>>) \o
                      <<<<"\\0">>>>
            /\ extra' = 1
            /\ iit' = iit + 1
            /\ UNCHANGED pc
       ELSE /\ out' = out \o (IF extra # 0 THEN <<<<"]">>>> ELSE <<>>) \o
                      <<<<"\n">>>>
            /\ pc' = "info_loop"
            /\ UNCHANGED <<extra, iit>>
  /\ UNCHANGED <<iend, ibuf, isize, ires, iret, err>>
  /\ InfoFrame

\* the run is over and the next one starts: a new process on another file,
\* or a second parse of the same buffer in the same process, which finds
\* the static tmp as the first parse left it
Rerun ==
  /\ Running("exit")
  /\ next # NoFile
  /\ raw' = next[2]
  /\ next' = NoFile
  /\ prev' = <<next[1], exit, out, err>>
  /\ tmp' = IF next[1] = "same" THEN tmp ELSE ""
  /\ pc' = "main"
  /\ it' = NULL /\ end' = NULL /\ buf' = <<>> /\ subchunk' = 0 /\ size' = 0
  /\ iit' = NULL /\ iend' = NULL /\ ibuf' = <<>> /\ isize' = 0 /\ extra' = 0
  /\ ires' = NULL
  /\ res' = EXIT_FAILURE
  /\ exit' = NULL
  /\ out' = <<>> /\ err' = <<>>
  /\ reads' = {}
  /\ ret' = 0 /\ iret' = 0
  /\ UNCHANGED <<argc, env, asserts>>

Next ==
  \/ Main \/ MainReturn \/ Rerun
  \/ RiffId \/ RiffSize \/ RiffFormat
  \/ FmtId \/ FmtSize \/ FmtAudioFormat \/ FmtNumChannels \/ FmtSampleRate
  \/ FmtByteRate \/ FmtBlockAlign \/ FmtBitsPerSample
  \/ Walk \/ WalkId \/ WalkSize \/ WalkDispatch \/ WalkInfoReturn \/ WalkNext
  \/ InfoType \/ InfoLoop \/ InfoTag \/ InfoSize \/ InfoText \/ InfoPad

Spec == Init /\ [][Next]_vars

\* the process is sequential and nothing in it blocks: whenever it has a
\* next statement, it executes it
FairSpec == Spec /\ WF_vars(Next)

\* ================================================================ claims
\* where parse_RIFF and parse_subchunk_INFO are executing
InfoPcs == {"info_type", "info_loop", "info_tag", "info_size", "info_text",
            "info_pad"}
RiffPcs == {"riff_id", "riff_size", "riff_format", "fmt_id", "fmt_size",
            "fmt_audio", "fmt_channels", "fmt_rate", "fmt_byterate",
            "fmt_align", "fmt_bits", "walk", "walk_id", "walk_size",
            "walk_dispatch", "walk_info_ret", "walk_next"} \cup InfoPcs

\* the little-endian value of the n bytes at offset off of the file
FileLE(off, n) ==
  LET RECURSIVE V(_)
      V(k) == IF k = n THEN 0 ELSE raw[off + k + 1] + 256 * V(k + 1)
  IN  V(0)

\* C1: while parse_RIFF runs its cursor satisfies 0 <= it <= end <= length,
\* while parse_subchunk_INFO runs its cursor satisfies
\* 0 <= it <= end <= length, every offset dereferenced is below length, and
\* no assert(it <= end) of remaining_read fails.
C1_CursorInBounds ==
  /\ asserts
  /\ \A i \in reads : 0 <= i /\ i < length
  /\ pc \in RiffPcs => 0 <= it /\ it <= end /\ end <= length
  /\ pc \in InfoPcs => 0 <= iit /\ iit <= iend /\ iend <= length

\* the NUL probe of the INFO parser has run up to the last byte of the file
C1_Witness ==
  /\ pc = "info_pad" /\ extra = 1
  /\ iit = iend /\ iend = length
  /\ (length - 1) \in reads

\* C2: a declared size above the bytes left in its view (RIFF ChunkSize,
\* walker subchunk size, INFO field size) makes the parse fail with no byte
\* of the payload read; a chunk that is dispatched has a size that fits.
C2_OversizeFails ==
  /\ ret = 170 => /\ FileLE(4, 4) > length - 8
                  /\ res = EXIT_FAILURE
                  /\ \A i \in reads : i < 8
  /\ ret = 252 => /\ size > end - it
                  /\ res = EXIT_FAILURE
                  /\ \A i \in reads : i < it
  /\ iret = 113 => /\ isize > iend - iit
                   /\ ires = EXIT_FAILURE
                   /\ \A i \in reads : i < iit
                   /\ ret # 0 => res = EXIT_FAILURE
  /\ pc \in (RiffPcs \ {"riff_id", "riff_size"}) => FileLE(4, 4) <= length - 8
  /\ pc \in ({"walk_dispatch", "walk_info_ret", "walk_next"} \cup InfoPcs)
       => size <= end - it
  /\ pc = "info_text" => isize <= iend - iit
  /\ pc = "exit" /\ (ret \in {170, 252} \/ iret = 113) => exit = 1

\* a 44-byte file whose ChunkSize field is 1000000 has exited with status 1
C2_Witness ==
  /\ pc = "exit" /\ exit = 1 /\ ret = 170
  /\ length = 44 /\ FileLE(4, 4) = 1000000

\* the steps that make one checked read with the cursor of parse_RIFF, and
\* the number of bytes each asks for
ReadWidth ==
  [p \in {"riff_id", "riff_size", "riff_format", "fmt_id", "fmt_size",
          "fmt_rate", "fmt_byterate", "walk_id", "walk_size"} |-> 4] @@
  [p \in {"fmt_audio", "fmt_channels", "fmt_align", "fmt_bits"} |-> 2]

\* the same for parse_subchunk_INFO
InfoReadWidth == [p \in {"info_type", "info_tag", "info_size"} |-> 4]

C4_ExitCode ==
  pc = "exit" =>
    /\ (argc # 2 \/ env # "ok" \/ res # EXIT_SUCCESS) => exit = 1
    /\ exit = 0 => (argc = 2 /\ env = "ok" /\ res = EXIT_SUCCESS)
    /\ exit \in {0, 1}

\* C5: a 36-byte file with the RIFF magic, a ChunkSize of at most 28 and
\* the fmt magic parses successfully, and what is printed is ChunkSize, the
\* Format tag and the six fmt fields decoded little-endian at offsets
\* 4, 8, 20, 22, 24, 28, 32, 34 (the Format as printf prints a 4-char
\* string, the AudioFormat as its codec name).
C5_TwoChunk ==
  ( /\ pc \in {"main_ret", "exit"}
    /\ env = "ok" /\ argc >= 2
    /\ length = 36
    /\ SubSeq(raw, 1, 4) = RIFF
    /\ FileLE(4, 4) <= 28
    /\ SubSeq(raw, 13, 16) = FMT )
  => /\ res = EXIT_SUCCESS
     /\ out = << <<"%.*s[", RIFF>>,
                 <<"ChunkSize: %u, ", FileLE(4, 4)>>,
                 <<"Format: '%.*s']\n", PrintS(SubSeq(raw, 9, 12))>>,
                 <<"[SubChunk%dId: '%.*s', ", 1, FMT>>,
                 <<"size: %u, ", FileLE(16, 4)>>,
                 <<"AudioFormat: '%s', ", AudioFormat(FileLE(20, 2))>>,
                 <<"NumChannels: %u, ", FileLE(22, 2)>>,
                 <<"SampleRate: %u, ", FileLE(24, 4)>>,
                 <<"ByteRate: %u, ", FileLE(28, 4)>>,
                 <<"BlockAlign: %u, ", FileLE(32, 2)>>,
                 <<"BitsPerSample: %u]\n", FileLE(34, 2)>> >>

\* the scenario of a 36-byte PCM file: 1 channel, 8000 Hz, 16000 bytes/s,
\* block align 2, 16 bits
C5_Witness ==
  /\ pc = "exit" /\ exit = 0 /\ length = 36
  /\ out[2] = <<"ChunkSize: %u, ", 28>>
  /\ out[6] = <<"AudioFormat: '%s', ", "PCM">>
  /\ out[8] = <<"SampleRate: %u, ", 8000>>
  /\ out[9] = <<"ByteRate: %u, ", 16000>>
  /\ out[11] = <<"BitsPerSample: %u]\n", 16>>

\* C6 as claimed: a subchunk ID with a byte outside 0x20..0x7E fails before
\* its size field is read, so the walker reads a size only after a printable
\* ID.
C6_PrintableId ==
  pc = "walk_size" => \A i \in 1..4 : buf[i] >= 32 /\ buf[i] <= 126

\* C6 as amended: a subchunk ID with a byte of 0x80..0xFF fails at line 241
\* before its size field is read, and only such an ID fails there; bytes
\* 0x00..0x1F and 0x7F in an ID are accepted.
C6_AsciiId ==
  /\ pc = "walk_size" => \A i \in 1..4 : buf[i] <= 127
  /\ ret = 241 => /\ res = EXIT_FAILURE
                  /\ \E i \in 1..4 : buf[i] >= 128
                  /\ \A i \in reads : i < it

\* the walker accepted an ID that starts with a NUL as subchunk 2, and then
\* failed on an ID with the byte 0x80
C6_Witness ==
  /\ ret = 241 /\ buf[4] = 128 /\ subchunk = 2
  /\ out[12] = <<"[SubChunk%dId: '%.*s', ", 2, <<>>>>

\* what main itself writes to stderr
MainMessages == {"%s file\n", "open(%s): %s\n", "fstat(%s): %s\n", "mmap(): %s\n"}

\* C7: every failing parse has written a diagnostic to stderr by the time it
\* returns failure.
C7_Diagnostic ==
  (ret # 0 /\ res = EXIT_FAILURE) =>
     \E i \in 1..Len(err) : err[i][1] \notin MainMessages

\* a check has failed: one of the parsers has returned failure
Failed ==
  \/ ret # 0 /\ res = EXIT_FAILURE
  \/ iret # 0 /\ ires = EXIT_FAILURE

\* C8: once a parser has returned failure the run only unwinds to the exit
\* with status 1: nothing more is dereferenced, nothing more is printed, no
\* further subchunk is counted.
C8_StopAtFirstError ==
  [][ (Failed /\ pc # "exit") =>
        /\ Failed'
        /\ pc' \in {"main_ret", "exit"}
        /\ res' = EXIT_FAILURE
        /\ pc' = "exit" => exit' = 1
        /\ UNCHANGED <<reads, out, err, subchunk>>
    ]_vars

\* the run ended on an INFO field overflow with a sibling of the LIST chunk
\* left unvisited
C8_Witness ==
  /\ pc = "exit" /\ exit = 1 /\ iret = 113 /\ ret = 260
  /\ it + size + 8 <= length
  /\ \A i \in reads : i < it + size

\* C9: parse_RIFF returns success only with its cursor at the end of the
\* file; with 1 to 7 bytes left at the head of the walker loop the parse
\* fails, on the read of the ID or on the read of the size.
C9_DoneAtEnd ==
  /\ []((ret # 0 /\ res = EXIT_SUCCESS) => (ret = 271 /\ it = end /\ end = length))
  /\ [][ /\ (pc = "walk" /\ end - it \in 1..7) =>
              (pc' = "walk_id" /\ it' = it)
         /\ (pc = "walk_id" /\ end - it \in 1..7) =>
              \/ pc' = "main_ret" /\ res' = EXIT_FAILURE
              \/ pc' = "walk_size" /\ end - it' \in 0..3
         /\ (pc = "walk_size" /\ end - it \in 0..3) =>
              (pc' = "main_ret" /\ res' = EXIT_FAILURE)
       ]_vars

\* 7 bytes were left after the fmt chunk: the ID was read, the size was not
C9_Witness ==
  /\ pc = "exit" /\ exit = 1 /\ ret = 244
  /\ length = 43 /\ reads = 0..39

\* what is printed about the chunks and the INFO fields, leaving out the
\* padding markers and the byte count printed by the walker
Logical(o) ==
  SelectSeq(o, LAMBDA e : e[1] \in {"[SubChunk%dId: '%.*s', ", "%.*s[\n",
                                    "\t%.*s[", "size: %u, '", "print_raw",
                                    "..."})

\* C10: a file with an INFO field of odd length followed by one NUL, and
\* the same file without that NUL, give the same exit status and the same
\* tags, field sizes and field texts, for that field and all after it.
C10_PadTwin ==
  (pc = "exit" /\ prev # <<>> /\ prev[1] = "pad") =>
     /\ exit = prev[2]
     /\ Logical(out) = Logical(prev[3])

\* both files parsed successfully, three fields each; the first printed a
\* padding marker, the second none
C10_Witness ==
  /\ pc = "exit" /\ prev # <<>> /\ prev[1] = "pad"
  /\ exit = 0 /\ prev[2] = 0
  /\ \E i \in 1..Len(prev[3]) : prev[3][i] = <<"Extra[">>
  /\ \A i \in 1..Len(out) : out[i] # <<"Extra[">>
  /\ Len(SelectSeq(out, LAMBDA e : e[1] = "size: %u, '")) = 3

\* C11: a LIST chunk of size 4 holding only the tag INFO parses to no field
\* at all and the walker goes on; a LIST chunk of size below 4 fails on the
\* read of the tag, with no byte of or after its payload dereferenced.
C11_EmptyList ==
  /\ [](pc = "walk_info_ret" /\ size = 4 /\ SubSeq(raw, it + 1, it + 4) = INFO
          => /\ ires = EXIT_SUCCESS /\ iret = 137
             /\ iit = it + 4
             /\ SubSeq(out, Len(out) - 1, Len(out)) =
                  << <<"%.*s[\n", INFO>>, <<"]">> >>)
  /\ [](pc = "walk_info_ret" /\ size < 4
          => /\ ires = EXIT_FAILURE /\ iret = 94
             /\ \A i \in reads : i < it)
  /\ [](pc \in (InfoPcs \ {"info_type"}) => size >= 4)
  /\ [][ (pc = "walk_info_ret" /\ ires = EXIT_SUCCESS) =>
           (pc' = "walk_next" /\ it' = it /\ size' = size) ]_vars

\* an empty INFO list was walked as subchunk 2, and a LIST chunk of size 3
\* after it failed on its tag
C11_Witness ==
  /\ pc = "exit" /\ exit = 1 /\ iret = 94 /\ size = 3 /\ subchunk = 3
  /\ out[13] = <<"size: %u, ", 4>>
  /\ out[14] = <<"%.*s[\n", INFO>>
  /\ out[15] = <<"]">>
  /\ it + size = length


\* C12: a buffer parsed twice in a row gives the same result, the same
\* stdout and the same stderr both times, whatever the first parse left in
\* the static buffer of AudioFormat.
C12_SameTwice ==
  (pc = "exit" /\ prev # <<>> /\ prev[1] = "same") =>
     /\ exit = prev[2]
     /\ out = prev[3]
     /\ err = prev[4]

\* the second parse of a buffer whose codec is not in the table: tmp held
\* the decimal code before the parse began, and the output is the same
C12_Witness ==
  /\ pc = "exit" /\ prev # <<>> /\ prev[1] = "same"
  /\ FileLE(20, 2) = 4660 /\ tmp = "4660"
  /\ exit = 0 /\ Len(out) = 11
  /\ out[6] = <<"AudioFormat: '%s', ", "4660">>
  /\ prev[3][6] = <<"AudioFormat: '%s', ", "4660">>


\* the payload of the subchunk the walker is at, read from the file
Payload == SubSeq(raw, it + 1, it + size)

\* C13 as claimed: the payload of a subchunk other than LIST is rendered as
\* text exactly when all its bytes are in 0x20..0x7E, and as the ellipsis
\* otherwise.
C13_PrintablePayload ==
  (pc = "walk_next" /\ buf # LIST) =>
     (out[Len(out)][1] = "print_raw" <=>
        \A k \in 1..size : Payload[k] >= 32 /\ Payload[k] <= 126)

\* C13 as amended: the payload of a subchunk other than LIST is rendered as
\* text exactly when all its bytes are in 0x00..0x7F, control bytes escaped
\* by the byte renderer, and as the ellipsis exactly when it has a byte of
\* 0x80..0xFF.
C13_AsciiPayload ==
  (pc = "walk_next" /\ buf # LIST) =>
     IF \A k \in 1..size : Payload[k] <= 127
       THEN out[Len(out)] = <<"print_raw", print_raw(Payload)>>
       ELSE out[Len(out)] = <<"...">>

\* the payload 0x00 0x01 was rendered as the text \0\??
C13_Witness ==
  /\ pc = "walk_next" /\ buf = DATA /\ size = 2
  /\ Payload = <<0, 1>>
  /\ out[Len(out)] = <<"print_raw", <<92, 48, 92, 63, 63>>>>


\* where the n-th subchunk starts if every subchunk before it takes 8 bytes
\* and its declared size; the fmt subchunk is the first
RECURSIVE ChunkPos(_)
ChunkPos(n) ==
  IF n <= 1 THEN 12
  ELSE IF n = 2 THEN 36
  ELSE ChunkPos(n - 1) + 8 + FileLE(ChunkPos(n - 1) + 4, 4)

\* the walker is inside the iteration that has counted its subchunk
InIteration == pc \in {"walk_dispatch", "walk_info_ret", "walk_next"} \cup InfoPcs

\* C14: each iteration of the walker that succeeds leaves the cursor at its
\* start plus 8 plus the declared size, in every branch and whatever the
\* INFO parser consumed; no pad byte is skipped after a subchunk of odd size:
\* the 4 bytes at that position are read as the next ID, and fewer than 4
\* bytes left there, such as one trailing pad byte, fail the parse at the
\* read of the ID.
C14_AdvanceBySize ==
  /\ [](pc \in {"walk", "walk_id"} => it = ChunkPos(subchunk + 1))
  /\ [](InIteration => /\ it = ChunkPos(subchunk) + 8
                       /\ size = FileLE(ChunkPos(subchunk) + 4, 4))
  /\ [][ pc = "walk_next" => it' = ChunkPos(subchunk) + 8 + size ]_vars
  /\ [][ (pc = "walk_id" /\ pc' = "walk_size") =>
           buf' = SubSeq(raw, ChunkPos(subchunk + 1) + 1,
                              ChunkPos(subchunk + 1) + 4) ]_vars
  /\ [](ret = 237 => /\ res = EXIT_FAILURE
                     /\ length - ChunkPos(subchunk + 1) \in 1..3)
  /\ [](ret \in {241, 244, 252, 271} =>
           length - ChunkPos(subchunk + 1) \notin 1..3)

\* a subchunk of size 3 was followed by one pad byte at the end of the
\* file, and the read of the next ID failed
C14_Witness ==
  /\ pc = "exit" /\ exit = 1 /\ ret = 237 /\ subchunk = 2
  /\ FileLE(ChunkPos(2) + 4, 4) = 3
  /\ ChunkPos(3) = length - 1 /\ raw[length] = 0


\* C15: the INFO parser works on [it, it + size), which ends at or before
\* the end of the file; none of its reads, of its field-size checks and of
\* its NUL skips touches or consumes a byte at or after it + size, even when
\* the bytes that follow the LIST chunk are NUL.
C15_Confined ==
  /\ [](pc \in InfoPcs \cup {"walk_info_ret"} =>
           /\ iend = it + size
           /\ iend <= length
           /\ iit # NULL => (it <= iit /\ iit <= it + size))
  /\ [][ (pc \in InfoPcs) =>
           (\A i \in (reads' \ reads) : i >= it /\ i < it + size) ]_vars
  /\ [](pc = "info_text" => iit + isize <= it + size)
  /\ [](iret = 113 => isize > it + size - iit)
  /\ [][ (pc = "info_pad" /\ iit' # iit) =>
           (iit < it + size /\ raw[iit + 1] = 0 /\ iit' = iit + 1) ]_vars

\* the parser skipped NULs up to the end of its view and returned success
\* there, with another NUL right after the LIST chunk
C15_Witness ==
  /\ pc = "walk_info_ret" /\ ires = EXIT_SUCCESS /\ extra = 1
  /\ iit = it + size /\ it + size < length
  /\ raw[it + size] = 0 /\ raw[it + size + 1] = 0
  /\ it + size \notin reads


\* C16: after the text of an INFO field the parser consumes the NULs that
\* follow inside its view one by one, as many as there are and whatever the
\* parity of the field size, and stops at the first byte that is not NUL or
\* at the end of the view; the next tag is read there, so a tag never starts
\* with a skipped NUL; with the view exhausted the parser returns success.
C16_NulRun ==
  /\ [][ (pc = "info_text") => (iit' = iit + isize /\ pc' = "info_pad") ]_vars
  /\ [][ (pc = "info_pad") =>
           IF iit < it + size /\ raw[iit + 1] = 0
             THEN iit' = iit + 1 /\ pc' = "info_pad"
             ELSE iit' = iit /\ pc' = "info_loop" ]_vars
  /\ [](pc \in {"info_loop", "info_tag"} /\ out[Len(out)] = <<"\n">> =>
           (iit = it + size \/ raw[iit + 1] # 0))
  /\ [][ (pc = "info_tag" /\ pc' = "info_size") =>
           ibuf' = SubSeq(raw, iit + 1, iit + 4) ]_vars
  /\ [][ (pc = "info_loop" /\ iit = it + size) =>
           (pc' = "walk_info_ret" /\ ires' = EXIT_SUCCESS /\ iret' = 137) ]_vars

\* two NULs were skipped after a field of even size, and the next field
\* starts right after them
C16_Witness ==
  /\ pc = "info_tag" /\ extra = 0 /\ isize = 2
  /\ out[Len(out)] = <<"\n">>
  /\ SubSeq(out, Len(out) - 4, Len(out) - 1) =
       << <<"Extra[">>, <<"\\0">>, <<"\\0">>, <<"]">> >>
  /\ raw[iit - 2] # 0 /\ raw[iit - 1] = 0 /\ raw[iit] = 0 /\ raw[iit + 1] # 0


\* the index in o of the event that opened the INFO list being parsed
LastList(o) ==
  CHOOSE i \in 1..Len(o) :
    /\ o[i][1] = "%.*s[\n"
    /\ \A j \in (i + 1)..Len(o) : o[j][1] # "%.*s[\n"

\* the fields of that list parsed so far
FieldsDone ==
  Cardinality({ j \in (LastList(out) + 1)..Len(out) : out[j] = <<"\n">> })

\* C17: every run ends, with exit status 0 or 1.  Each iteration of the
\* walker that does not fail moves its cursor on by at least 8 bytes, and so
\* does each iteration of the field loop of the INFO parser, so that neither
\* loop runs more than length / 8 times.
C17_Terminates ==
  /\ <>[](pc = "exit" /\ exit \in {0, 1})
  /\ [](pc = "walk" => /\ it >= 36 + 8 * (subchunk - 1)
                       /\ it <= length
                       /\ 8 * (subchunk - 1) <= length)
  /\ [][ (pc = "walk_next") => it' >= ChunkPos(subchunk) + 8 ]_vars
  /\ [](pc = "info_loop" => /\ iit >= it + 4 + 8 * FieldsDone
                            /\ iit <= it + size
                            /\ 8 * FieldsDone <= size)

\* a file of 52 bytes was parsed to its end in two iterations of the
\* walker, each over a subchunk of 8 bytes
C17_Witness ==
  /\ pc = "exit" /\ exit = 0 /\ ret = 271
  /\ length = 52 /\ subchunk = 3 /\ it = length
  /\ FileLE(40, 4) = 0 /\ FileLE(48, 4) = 0


\* the list type of the LIST chunk the walker is at, read from the file
ListType == SubSeq(raw, it + 1, it + 4)

\* C18: a LIST chunk whose list type is not INFO is accepted: the INFO
\* parser returns success having read the 4 bytes of the type and nothing
\* else, the payload is rendered as the ellipsis, and the walker goes on at
\* it + size.
C18_OtherList ==
  /\ [](pc = "walk_info_ret" /\ size >= 4 /\ ListType # INFO =>
           /\ ires = EXIT_SUCCESS /\ iret = 137
           /\ out[Len(out)] = <<"...">>
           /\ out[Len(out) - 1] = <<"size: %u, ", size>>
           /\ iit = it + 4
           /\ \A i \in reads : i < it + 4)
  /\ [][ (pc = "walk_info_ret" /\ size >= 4 /\ ListType # INFO) =>
           (pc' = "walk_next" /\ out' = out /\ reads' = reads) ]_vars
  /\ [][ (pc = "walk_next" /\ buf = LIST) =>
           (pc' = "walk" /\ it' = it + size /\ reads' = reads) ]_vars

\* a list of type adtl holding a field whose declared size is 1000000 was
\* passed over, and the file parsed to its end
C18_Witness ==
  /\ pc = "exit" /\ exit = 0 /\ subchunk = 2 /\ length = 56
  /\ SubSeq(raw, 37, 40) = LIST /\ SubSeq(raw, 45, 48) = ADTL
  /\ FileLE(52, 4) = 1000000
  /\ out[14] = <<"...">> /\ out[15] = <<"]\n">>


\* the returns of parse_RIFF that come before its subchunk loop
HeaderReturns == {151, 156, 161, 170, 174, 184, 187, 192, 198, 204, 210, 216,
                  222, 228}

\* where the walker is
WalkPcs == {"walk", "walk_id", "walk_size", "walk_dispatch", "walk_info_ret",
            "walk_next"} \cup InfoPcs

\* C19: a header that validates has had exactly its first 36 bytes read,
\* whatever size the fmt chunk declares: that size is printed and decides
\* neither the outcome nor the position, so the walker always starts at
\* offset 36; a file shorter than 36 bytes fails.
C19_Header36 ==
  /\ [](pc = "walk" /\ subchunk = 1 =>
           /\ it = 36
           /\ reads = 0..35
           /\ Len(out) = 11
           /\ out[5] = <<"size: %u, ", FileLE(16, 4)>>)
  /\ [][ (pc = "fmt_size" /\ length >= 20) =>
           (pc' = "fmt_audio" /\ it' = 20 /\ res' = res /\ ret' = ret) ]_vars
  /\ [][ (pc = "fmt_bits" /\ length >= 36) => (pc' = "walk" /\ it' = 36) ]_vars
  /\ [](pc \in WalkPcs => length >= 36)
  /\ [](pc = "exit" /\ length < 36 =>
           /\ exit = 1
           /\ ret \in HeaderReturns \cup {0})

\* the walker started at offset 36 of a file whose fmt chunk declares the
\* size 1000000, and the file parsed to its end
C19_Witness ==
  /\ pc = "exit" /\ exit = 0 /\ ret = 271
  /\ FileLE(16, 4) = 1000000
  /\ length = 36 /\ it = 36 /\ subchunk = 1


\* the magic and the ID of the first subchunk, read from the file
Magic == SubSeq(raw, 1, 4)
FirstId == SubSeq(raw, 13, 16)

\* C20: a file that does not start with RIFF, the big-endian RIFX included,
\* fails at line 156 with only its first 4 bytes read; a file whose bytes
\* 12..15 are not the ID of the fmt chunk fails at line 187 with only its
\* first 16 bytes read; in both cases nothing after the check runs: no
\* further field is read or printed and no subchunk is counted.
C20_BadMagic ==
  /\ [][ (pc = "riff_id" /\ length >= 4 /\ Magic # RIFF) =>
           (pc' = "main_ret" /\ ret' = 156 /\ res' = EXIT_FAILURE) ]_vars
  /\ [](ret = 156 => /\ Magic # RIFF
                     /\ res = EXIT_FAILURE
                     /\ pc \in {"main_ret", "exit"}
                     /\ reads = 0..3
                     /\ out = <<>>
                     /\ subchunk = 0)
  /\ [](pc \in RiffPcs \ {"riff_id"} => Magic = RIFF)
  /\ [][ (pc = "fmt_id" /\ length >= 16 /\ FirstId # FMT) =>
           (pc' = "main_ret" /\ ret' = 187 /\ res' = EXIT_FAILURE) ]_vars
  /\ [](ret = 187 => /\ FirstId # FMT
                     /\ res = EXIT_FAILURE
                     /\ pc \in {"main_ret", "exit"}
                     /\ reads = 0..15
                     /\ Len(out) = 3
                     /\ subchunk = 0)
  /\ [](pc \in RiffPcs \ {"riff_id", "riff_size", "riff_format", "fmt_id"} =>
           FirstId = FMT)
  /\ [](pc = "exit" /\ ret \in {156, 187} => exit = 1)

\* a file that is well-formed but for its magic RIFX has failed, with
\* nothing printed
C20_Witness ==
  /\ pc = "exit" /\ exit = 1 /\ ret = 156
  /\ Magic = RIFX /\ FirstId = FMT /\ length = 36 /\ FileLE(4, 4) = 28
  /\ out = <<>> /\ err = <<>>


\* C21: the ChunkSize of the RIFF header is only checked not to exceed the
\* bytes left after it, and limits nothing afterwards: the limit of the
\* walker and of its size checks is the end of the file, so a file whose
\* ChunkSize is smaller than what follows, down to 0, is accepted and the
\* bytes after the declared end are walked as subchunks.
C21_ChunkSizeUnused ==
  /\ [](pc \in RiffPcs => end = length)
  /\ [][ (pc = "riff_size" /\ length >= 8 /\ FileLE(4, 4) <= length - 8) =>
           (pc' = "riff_format" /\ it' = 8 /\ end' = end /\ ret' = ret) ]_vars
  /\ [][ (pc = "walk" /\ it < length) => (pc' = "walk_id" /\ ret' = ret) ]_vars
  /\ [][ (pc = "walk_size" /\ length - it >= 4
             /\ FileLE(it, 4) <= length - it - 4) =>
           (pc' = "walk_dispatch" /\ ret' = ret) ]_vars
  /\ [](ret = 271 => it = length /\ res = EXIT_SUCCESS)

\* a file of 44 bytes whose ChunkSize is 0 was accepted, and the subchunk
\* at offset 36, after the declared end, was walked
C21_Witness ==
  /\ pc = "exit" /\ exit = 0 /\ ret = 271
  /\ FileLE(4, 4) = 0 /\ length = 44
  /\ subchunk = 2 /\ it = length
  /\ out[2] = <<"ChunkSize: %u, ", 0>>
  /\ out[12] = <<"[SubChunk%dId: '%.*s', ", 2, DATA>>

====
